---- MODULE Spec2Model ----
(***************************************************************************)
(* Low-rank matrix factorisation by full-batch gradient descent            *)
(* (src/recommender.ipynb): compute_cost, update and train.                *)
(*                                                                         *)
(* Numbers are exact: the reals of the notebook are modelled by integers   *)
(* (floating-point rounding, Inf and NaN are outside the model).  The one  *)
(* division of the code, the "/ 2" of compute_cost, is kept exact by       *)
(* counting the cost in halves: compute_cost below is the numerator of     *)
(* the returned value over the denominator 2.                              *)
(***************************************************************************)
EXTENDS Integers, Sequences, FiniteSets, TLC

\* ------------------------------------------------------------- bounds
MaxVal == 1        \* entries drawn by randn lie in -MaxVal..MaxVal
MaxFactor == 2     \* n_factor is drawn from -1..MaxFactor
MaxRounds == 1     \* the long runs take MaxRounds * ReportEvery steps, or one more
MaxAbs == 20       \* a run is followed while its factors stay in -MaxAbs..MaxAbs

\* ------------------------------------------------------------- program constants
ReportEvery == 100

\* ------------------------------------------------------------- numpy arrays
\* The first n values of f as a tuple (an array holds values, not expressions).
RECURSIVE Tuple(_, _)
Tuple(f, n) == IF n = 0 THEN <<>> ELSE Append(Tuple(f, n - 1), f[n])

\* A 2-d array: its shape and its entries, f[r, c] at row r and column c.
Mat(nr, nc, f) ==
    [nr |-> nr, nc |-> nc,
     a |-> Tuple([r \in 1..nr |-> Tuple([c \in 1..nc |-> f[r, c]], nc)], nr)]

RECURSIVE SumTo(_, _)
SumTo(f, n) == IF n = 0 THEN 0 ELSE f[n] + SumTo(f, n - 1)

\* The operands of an array operation are bound as values, so that each is
\* evaluated once, as numpy evaluates them.
Only(S) == CHOOSE M \in S : TRUE

\* A @ B
MatMul(A_, B_) ==
    Only({Mat(A.nr, B.nc,
              [r \in 1..A.nr, c \in 1..B.nc |->
                  SumTo([t \in 1..A.nc |-> A.a[r][t] * B.a[t][c]], A.nc)]) :
          A \in {A_}, B \in {B_}})

\* A.T
Transpose(A_) ==
    Only({Mat(A.nc, A.nr, [r \in 1..A.nc, c \in 1..A.nr |-> A.a[c][r]]) : A \in {A_}})

\* A - B
MatSub(A_, B_) ==
    Only({Mat(A.nr, A.nc, [r \in 1..A.nr, c \in 1..A.nc |-> A.a[r][c] - B.a[r][c]]) :
          A \in {A_}, B \in {B_}})

\* A + B
MatAdd(A_, B_) ==
    Only({Mat(A.nr, A.nc, [r \in 1..A.nr, c \in 1..A.nc |-> A.a[r][c] + B.a[r][c]]) :
          A \in {A_}, B \in {B_}})

\* k * A
Scale(k, A_) ==
    Only({Mat(A.nr, A.nc, [r \in 1..A.nr, c \in 1..A.nc |-> k * A.a[r][c]]) : A \in {A_}})

\* A * has_rating, has_rating a boolean array (True is 1, False is 0)
BoolInt(b) == IF b THEN 1 ELSE 0

MulMask(A_, M_) ==
    Only({Mat(A.nr, A.nc,
              [r \in 1..A.nr, c \in 1..A.nc |-> A.a[r][c] * BoolInt(M.a[r][c])]) :
          A \in {A_}, M \in {M_}})

\* np.sum(A)
NpSum(A) ==
    SumTo([r \in 1..A.nr |-> SumTo(A.a[r], A.nc)], A.nr)

\* np.linalg.norm(A) ** 2: the squared Frobenius norm
NormSq(A) ==
    SumTo([r \in 1..A.nr |-> SumTo([c \in 1..A.nc |-> A.a[r][c] * A.a[r][c]], A.nc)], A.nr)

\* ------------------------------------------------------------- compute_cost
\* compute_cost with the residual summed as it is, not multiplied by itself.
compute_cost_unsquared(X_, Theta_, Y_, has_rating_, reg_) ==
    LET error == MulMask(MatSub(MatMul(X_, Transpose(Theta_)), Y_), has_rating_)
        squared_diff == NpSum(error)
        penalty == reg_ * (NormSq(X_) + NormSq(Theta_))
    IN  squared_diff + penalty

\* Twice the value compute_cost returns (see the header).
compute_cost(X_, Theta_, Y_, has_rating_, reg_) ==
    LET error == MulMask(MatSub(MatMul(X_, Transpose(Theta_)), Y_), has_rating_)
        squared_diff == NpSum(MatMul(error, Transpose(error)))
        penalty == reg_ * (NormSq(X_) + NormSq(Theta_))
    IN  squared_diff + penalty

\* ------------------------------------------------------------- update
\* Line 68.
dX(X_, Theta_, Y_, has_rating_, reg_) ==
    MatAdd(MatMul(MulMask(MatSub(MatMul(X_, Transpose(Theta_)), Y_), has_rating_), Theta_),
           Scale(reg_, X_))

\* Line 69.
dTheta(X_, Theta_, Y_, has_rating_, reg_) ==
    MatAdd(MatMul(Transpose(MulMask(MatSub(MatMul(X_, Transpose(Theta_)), Y_), has_rating_)),
                  X_),
           Scale(reg_, Theta_))

\* update without the mask: every position of Y counts as a rating.
update_unmasked(X_, Theta_, Y_, has_rating_, reg_, alpha_) ==
    LET E == MatSub(MatMul(X_, Transpose(Theta_)), Y_)
        dX_ == MatAdd(MatMul(E, Theta_), Scale(reg_, X_))
        dTheta_ == MatAdd(MatMul(Transpose(E), X_), Scale(reg_, Theta_))
    IN  <<MatSub(X_, Scale(alpha_, dX_)), MatSub(Theta_, Scale(alpha_, dTheta_))>>

\* update with line 69 moved below line 70: dTheta is taken from the new X.
update_sequential(X_, Theta_, Y_, has_rating_, reg_, alpha_) ==
    LET dX_ == dX(X_, Theta_, Y_, has_rating_, reg_)
        X1 == MatSub(X_, Scale(alpha_, dX_))
        dTheta_ == dTheta(X1, Theta_, Y_, has_rating_, reg_)
        Theta1 == MatSub(Theta_, Scale(alpha_, dTheta_))
    IN  <<X1, Theta1>>

\* update that steps every factor but the last one.
update_skiplast(X_, Theta_, Y_, has_rating_, reg_, alpha_) ==
    LET dX_ == dX(X_, Theta_, Y_, has_rating_, reg_)
        dTheta_ == dTheta(X_, Theta_, Y_, has_rating_, reg_)
        X1 == Mat(X_.nr, X_.nc, [r \in 1..X_.nr, c \in 1..X_.nc |->
                    IF c = X_.nc THEN X_.a[r][c] ELSE X_.a[r][c] - alpha_ * dX_.a[r][c]])
        Theta1 == Mat(Theta_.nr, Theta_.nc, [r \in 1..Theta_.nr, c \in 1..Theta_.nc |->
                    IF c = Theta_.nc THEN Theta_.a[r][c]
                    ELSE Theta_.a[r][c] - alpha_ * dTheta_.a[r][c]])
    IN  <<X1, Theta1>>

\* The pair (X, Theta) update returns: both gradients are bound (lines 68-69)
\* before either array is changed in place (lines 70-71).
update(X_, Theta_, Y_, has_rating_, reg_, alpha_) ==
    LET dX_ == dX(X_, Theta_, Y_, has_rating_, reg_)
        dTheta_ == dTheta(X_, Theta_, Y_, has_rating_, reg_)
        X1 == MatSub(X_, Scale(alpha_, dX_))
        Theta1 == MatSub(Theta_, Scale(alpha_, dTheta_))
    IN  <<X1, Theta1>>

\* ------------------------------------------------------------- state
\* One call of train, and beside it a second call that differs from it only in
\* the ratings matrix (Y2 for Y): the two run in lockstep, so that what a run
\* computes can be compared between two ratings matrices.
VARIABLES
    rng,          \* the stream np.random draws from (set by np.random.seed)
    Y,            \* train's arguments
    has_rating,
    reg,
    alpha,
    n_factor,
    n_iter,
    pc,           \* "entry", "for", "gd", "done", "error"
    X,            \* train's locals
    Theta,
    i,
    out,          \* what train has printed: <<iteration, cost>> pairs
    X0,           \* history: the factors as randn drew them
    Theta0,
    nupd,         \* history: the number of calls of update
    Y2,           \* the second call: its ratings matrix,
    X2,           \* its locals
    Theta2,
    out2          \* and what it has printed

vars == <<rng, Y, has_rating, reg, alpha, n_factor, n_iter,
          pc, X, Theta, i, out, X0, Theta0, nupd, Y2, X2, Theta2, out2>>

args == <<rng, Y, has_rating, reg, alpha, n_factor, n_iter, Y2>>

\* No array: a local that is not bound yet.
None == [nr |-> 0, nc |-> 0, a |-> <<>>]

\* ------------------------------------------------------------- inputs
RandnVals == (-MaxVal)..MaxVal

\* The streams np.random can be seeded to: a stream repeats a short pattern.
Streams == RandnVals \X RandnVals

\* np.random.randn(n, k) once off values have been drawn from the stream.
randn(n, k, off) ==
    Mat(n, k,
        [r \in 1..n, c \in 1..k |-> rng[((off + (r - 1) * k + (c - 1)) % Len(rng)) + 1]])

Shapes == {<<2, 1>>, <<1, 2>>}

\* Ratings; 0 stands for "not rated" in the notebook's data.
RatingVals == {0, 1}

Ratings(sh) == [1..sh[1] -> [1..sh[2] -> RatingVals]]

Masks(sh) == [1..sh[1] -> [1..sh[2] -> BOOLEAN]]

\* The array of shape sh with the entries m.
Array(sh, m) == Mat(sh[1], sh[2], [r \in 1..sh[1], c \in 1..sh[2] |-> m[r][c]])

RegChoices == {-1, 0, 1}

AlphaChoices == {1}

NIterChoices == {-1, 0, 1, 2} \cup {MaxRounds * ReportEvery + d : d \in {0, 1}}

\* What an unrated position of a ratings matrix may hold.
Placeholders == RatingVals \cup {2}

\* The mask the notebook derives from its data: has_rating = (Y > 0).
Rated(Y_) == Mat(Y_.nr, Y_.nc, [r \in 1..Y_.nr, c \in 1..Y_.nc |-> Y_.a[r][c] > 0])

\* The ratings matrices that agree with Y_ wherever has_rating_ is true.
SameObserved(Y_, has_rating_) ==
    {Array(<<Y_.nr, Y_.nc>>, m) :
        m \in {f \in [1..Y_.nr -> [1..Y_.nc -> Placeholders]] :
                 \A r \in 1..Y_.nr : \A c \in 1..Y_.nc :
                    has_rating_.a[r][c] => f[r][c] = Y_.a[r][c]}}

\* ------------------------------------------------------------- train
\* The short calls take every combination of the arguments, a second ratings
\* matrix being run beside the first where the hyperparameters are valid.  The
\* long calls are the notebook's: has_rating = (Y > 0) and reg = 0.
Init ==
    /\ rng \in Streams
    /\ \E sh \in Shapes :
          /\ Y \in {Array(sh, m) : m \in Ratings(sh)}
          /\ has_rating \in {Array(sh, m) : m \in Masks(sh)}
    /\ reg \in RegChoices
    /\ alpha \in AlphaChoices
    /\ n_factor \in (-1)..MaxFactor
    /\ n_iter \in NIterChoices
    /\ Y2 \in SameObserved(Y, has_rating)
    /\ (Y2 # Y) => (n_factor >= 1 /\ reg >= 0 /\ n_iter >= 0)
    /\ (n_iter > 2) => (n_factor >= 1 /\ reg = 0 /\ has_rating = Rated(Y) /\ Y2 = Y)
    /\ pc = "entry"
    /\ X = None /\ Theta = None
    /\ X2 = None /\ Theta2 = None
    /\ i = 0
    /\ out = <<>> /\ out2 = <<>>
    /\ X0 = None /\ Theta0 = None
    /\ nupd = 0

\* Lines 84-87: the shapes, then the two draws; randn raises ValueError on a
\* negative dimension.
TrainInit ==
    /\ pc = "entry"
    /\ \/ /\ n_factor < 0
          /\ pc' = "error"
          /\ UNCHANGED <<X, Theta, X0, Theta0, X2, Theta2>>
       \/ /\ n_factor >= 0
          /\ LET ni == Y.nr
                 nu == Y.nc
             IN  /\ X' = randn(ni, n_factor, 0)
                 /\ Theta' = randn(nu, n_factor, ni * n_factor)
          /\ X0' = X' /\ Theta0' = Theta'
          /\ X2' = X' /\ Theta2' = Theta'
          /\ pc' = "for"
    /\ UNCHANGED <<args, i, out, out2, nupd>>

\* The loss printed once a block of ReportEvery steps is complete.
Reports_after(it) == it = 0 \/ (it + 1) % ReportEvery = 0

\* Line 89: the iterations at which the loss is printed.
Reports(it) == it = 0 \/ it % ReportEvery = 0

\* Lines 88-90: range(n_iter) yields i; the loss is printed when Reports(i).
ForReport ==
    /\ pc = "for"
    /\ i < n_iter
    /\ out' = IF Reports(i)
              THEN Append(out, <<i, compute_cost(X, Theta, Y, has_rating, reg)>>)
              ELSE out
    /\ out2' = IF Reports(i)
               THEN Append(out2, <<i, compute_cost(X2, Theta2, Y2, has_rating, reg)>>)
               ELSE out2
    /\ pc' = "gd"
    /\ UNCHANGED <<args, X, Theta, X2, Theta2, i, X0, Theta0, nupd>>

InRange(A) ==
    \A r \in 1..A.nr : \A c \in 1..A.nc : A.a[r][c] \in (-MaxAbs)..MaxAbs

\* Line 92: one gradient-descent step, then the next value of range(n_iter).
GradientDescent ==
    /\ pc = "gd"
    /\ LET res == update(X, Theta, Y, has_rating, reg, alpha)
           res2 == update(X2, Theta2, Y2, has_rating, reg, alpha)
       IN  /\ InRange(res[1]) /\ InRange(res[2])
           /\ InRange(res2[1]) /\ InRange(res2[2])
           /\ X' = res[1]
           /\ Theta' = res[2]
           /\ X2' = res2[1]
           /\ Theta2' = res2[2]
    /\ nupd' = nupd + 1
    /\ i' = i + 1
    /\ pc' = "for"
    /\ UNCHANGED <<args, out, out2, X0, Theta0>>

\* The loop left one iteration early.
TrainReturn_early ==
    /\ pc = "for"
    /\ i >= n_iter - 1
    /\ pc' = "done"
    /\ UNCHANGED <<args, X, Theta, X2, Theta2, i, out, out2, X0, Theta0, nupd>>

\* Line 93: range(n_iter) is exhausted.
TrainReturn ==
    /\ pc = "for"
    /\ i >= n_iter
    /\ pc' = "done"
    /\ UNCHANGED <<args, X, Theta, X2, Theta2, i, out, out2, X0, Theta0, nupd>>

Next == TrainInit \/ ForReport \/ GradientDescent \/ TrainReturn

Spec == Init /\ [][Next]_vars

\* The calls of one seed: the runs whose end is checked.
InitSeeded == Init /\ rng = <<MaxVal, -MaxVal>> /\ Y2 = Y

\* range(n_iter) and the calls in the loop body always return.
FairSpec == InitSeeded /\ [][Next]_vars /\ WF_vars(Next)

\* ------------------------------------------------------------- notions the claims use
\* train has drawn its factors.
Allocated == pc \in {"for", "gd", "done"}

\* The masked residual at (r, c), from the definition: the prediction minus
\* the rating where the rating is observed, 0 elsewhere.
Residual(X_, Theta_, Y_, has_rating_, r, c) ==
    IF has_rating_.a[r][c]
    THEN SumTo([t \in 1..X_.nc |-> X_.a[r][t] * Theta_.a[c][t]], X_.nc) - Y_.a[r][c]
    ELSE 0

\* Twice the cost of the specification: the squared residuals summed entry by
\* entry, plus reg times the squared entries of both factors.
DirectCost(X_, Theta_, Y_, has_rating_, reg_) ==
    SumTo([r \in 1..Y_.nr |->
             SumTo([c \in 1..Y_.nc |->
                      Residual(X_, Theta_, Y_, has_rating_, r, c)
                        * Residual(X_, Theta_, Y_, has_rating_, r, c)], Y_.nc)], Y_.nr)
    + reg_ * (NormSq(X_) + NormSq(Theta_))

\* Every observed rating is reconstructed exactly.
Reconstructed(X_, Theta_, Y_, has_rating_) ==
    \A r \in 1..Y_.nr : \A c \in 1..Y_.nc : Residual(X_, Theta_, Y_, has_rating_, r, c) = 0

\* The hyperparameters are the ones the specification admits.
ValidArgs == n_factor >= 1 /\ alpha >= 1 /\ reg >= 0 /\ n_iter >= 0

AllZero(A) == \A r \in 1..A.nr : \A c \in 1..A.nc : A.a[r][c] = 0

\* A with h added to its entry (r0, c0).
Perturb(A, r0, c0, h) ==
    Mat(A.nr, A.nc,
        [r \in 1..A.nr, c \in 1..A.nc |->
            IF r = r0 /\ c = c0 THEN A.a[r][c] + h ELSE A.a[r][c]])

\* ------------------------------------------------------------- C1
\* C1: compute_cost returns (1/2) * the sum of the squared entries of the masked
\* residual + (reg/2) * the squared entries of X and Theta: whatever factors
\* train holds, the value the code computes is the direct elementwise value.
C1_CostIsSumOfSquares ==
    (Allocated /\ ValidArgs) =>
        compute_cost(X, Theta, Y, has_rating, reg) = DirectCost(X, Theta, Y, has_rating, reg)

\* ------------------------------------------------------------- C2
\* C2: the cost is zero if and only if reg = 0 and every observed rating is
\* reconstructed exactly.  Stated for factors that are not all zero: with
\* all-zero factors and observed ratings of 0 the cost is zero for every reg,
\* whatever way the squared error is summed.
C2_ZeroIffExact ==
    (Allocated /\ ValidArgs /\ ~(AllZero(X) /\ AllZero(Theta))) =>
        (compute_cost(X, Theta, Y, has_rating, reg) = 0
            <=> (reg = 0 /\ Reconstructed(X, Theta, Y, has_rating)))

\* ------------------------------------------------------------- C3
\* C3: for reg >= 0 the cost of the factors train holds is never negative, so
\* no cost train has printed is negative, however many update steps were taken.
C3_CostNonNegative ==
    reg >= 0 =>
        /\ Allocated => compute_cost(X, Theta, Y, has_rating, reg) >= 0
        /\ \A m \in 1..Len(out) : out[m][2] >= 0

\* A cost printed after update steps that changed the factors, and not zero.
C3_Witness ==
    /\ ValidArgs
    /\ Len(out) >= 2
    /\ out[2][2] > 0
    /\ X # X0

\* ------------------------------------------------------------- C4
\* C4: the gradients update applies are the partial derivatives of the value
\* compute_cost returns: in every entry of X and of Theta the central difference
\* (cost at +h minus cost at -h, over 2h) is that entry of dX or dTheta.  With
\* the cost counted in halves and h = 1 the difference of the two costs is four
\* times the gradient entry.
C4_GradientIsDerivative ==
    (Allocated /\ ValidArgs) =>
        /\ \A r \in 1..X.nr : \A c \in 1..X.nc :
              compute_cost(Perturb(X, r, c, 1), Theta, Y, has_rating, reg)
                - compute_cost(Perturb(X, r, c, -1), Theta, Y, has_rating, reg)
              = 4 * dX(X, Theta, Y, has_rating, reg).a[r][c]
        /\ \A r \in 1..Theta.nr : \A c \in 1..Theta.nc :
              compute_cost(X, Perturb(Theta, r, c, 1), Y, has_rating, reg)
                - compute_cost(X, Perturb(Theta, r, c, -1), Y, has_rating, reg)
              = 4 * dTheta(X, Theta, Y, has_rating, reg).a[r][c]

\* ------------------------------------------------------------- C5
\* C5: positions where has_rating is false never count.  The second call is
\* given a ratings matrix that agrees with Y on the observed positions only:
\* its cost, its factors after every step and what it prints are those of the
\* first call.
C5_UnobservedIgnored ==
    /\ X2 = X /\ Theta2 = Theta
    /\ out2 = out
    /\ Allocated =>
          compute_cost(X, Theta, Y2, has_rating, reg) = compute_cost(X, Theta, Y, has_rating, reg)

\* Two calls whose ratings matrices differ, with an observed rating, after
\* steps that changed the factors and a printed cost.
C5_Witness ==
    /\ ValidArgs
    /\ Y2 # Y
    /\ \E r \in 1..Y.nr : \E c \in 1..Y.nc : has_rating.a[r][c]
    /\ pc = "done"
    /\ nupd = 2
    /\ X # X0
    /\ Len(out) = 1

\* ------------------------------------------------------------- C6
\* The gradient entries of the specification, at the factors of the current
\* state: dX = E * Theta + reg * X and dTheta = E^T * X + reg * Theta.
GradX(r, c) ==
    SumTo([j \in 1..Y.nc |-> Residual(X, Theta, Y, has_rating, r, j) * Theta.a[j][c]], Y.nc)
    + reg * X.a[r][c]

GradTheta(j, c) ==
    SumTo([r \in 1..Y.nr |-> Residual(X, Theta, Y, has_rating, r, j) * X.a[r][c]], Y.nr)
    + reg * Theta.a[j][c]

\* C6: one update step takes both gradients at the factors it was called with:
\* X' = X - alpha * dX(X, Theta) and Theta' = Theta - alpha * dTheta(X, Theta),
\* dTheta never being taken at the new X.
C6_SingleSnapshot ==
    [][(pc = "gd" /\ pc' = "for") =>
          /\ \A r \in 1..X.nr : \A c \in 1..X.nc :
                X'.a[r][c] = X.a[r][c] - alpha * GradX(r, c)
          /\ \A j \in 1..Theta.nr : \A c \in 1..Theta.nc :
                Theta'.a[j][c] = Theta.a[j][c] - alpha * GradTheta(j, c)]_vars

\* After one step that moved both factors, where dTheta at the new X is not
\* dTheta at the old X.
C6_Witness ==
    /\ ValidArgs
    /\ pc = "for"
    /\ nupd = 1
    /\ X # X0 /\ Theta # Theta0
    /\ dTheta(X, Theta0, Y, has_rating, reg) # dTheta(X0, Theta0, Y, has_rating, reg)

\* ------------------------------------------------------------- C7
\* update applied n times in sequence to the factors randn drew.
\* The n-fold composition is split in halves so that long runs nest shallowly.
RECURSIVE StepsFrom(_, _)
StepsFrom(p_, n) ==
    IF n = 0 THEN p_
    ELSE IF n = 1 THEN update(p_[1], p_[2], Y, has_rating, reg, alpha)
    ELSE Only({StepsFrom(q, n - (n \div 2)) : q \in {StepsFrom(p_, n \div 2)}})

Steps(n) == StepsFrom(<<X0, Theta0>>, n)

\* The model follows a run no further: the next step leaves -MaxAbs..MaxAbs.
Halted ==
    /\ pc = "gd"
    /\ LET res == update(X, Theta, Y, has_rating, reg, alpha)
       IN  ~(InRange(res[1]) /\ InRange(res[2]))

\* C7: for n_iter >= 0 train ends, having applied update exactly n_iter times in
\* sequence to the factors it drew: what it returns is the n_iter-fold
\* composition of update on them, and printing a cost changes none of X, Theta,
\* Y, has_rating.
C7_ExactlyNIterSteps ==
    /\ []((pc = "done" /\ n_iter >= 0) =>
            /\ nupd = n_iter
            /\ <<X, Theta>> = Steps(n_iter))
    /\ [][(pc = "for" /\ pc' = "gd") => UNCHANGED <<X, Theta, Y, has_rating>>]_vars
    /\ [][UNCHANGED <<Y, has_rating>>]_vars
    /\ <>(pc \in {"done", "error"} \/ Halted)

\* train has returned after more than ReportEvery steps that changed the factors.
C7_Witness ==
    /\ pc = "done"
    /\ n_iter > ReportEvery
    /\ nupd = n_iter
    /\ X # X0
    /\ Len(out) >= 2

\* ------------------------------------------------------------- C8
\* The pair train prints at iteration it.
ReportAt(it) ==
    LET p == Steps(it) IN <<it, compute_cost(p[1], p[2], Y, has_rating, reg)>>

\* The number of multiples of ReportEvery in 0..n-1.
NumReports(n) == IF n <= 0 THEN 0 ELSE ((n - 1) \div ReportEvery) + 1

\* C8 as claimed: for every n_iter >= 0 train prints the cost at iteration 0,
\* before the first step, and at every ReportEvery-th iteration after it, in
\* increasing order, each cost being that of the factors after that many steps.
C8_ReportsFromIterationZero ==
    (pc = "done" /\ n_iter >= 0) =>
        /\ Len(out) >= 1
        /\ \A m \in 1..Len(out) : out[m] = ReportAt((m - 1) * ReportEvery)
        /\ Len(out) = IF n_iter = 0 THEN 1 ELSE NumReports(n_iter)

\* C8 as amended: train prints a pair for exactly the iterations it with
\* 0 <= it < n_iter and it a multiple of ReportEvery (none when n_iter = 0), in
\* increasing order, each cost being that of the factors after it steps.
C8_ReportsBelowNIter ==
    /\ \A m \in 1..Len(out) : out[m][1] = (m - 1) * ReportEvery
    /\ \A m \in 1..(Len(out) - 1) : out[m][1] < out[m + 1][1]
    /\ pc = "done" =>
          /\ Len(out) = NumReports(n_iter)
          /\ \A m \in 1..Len(out) : out[m] = ReportAt((m - 1) * ReportEvery)

\* train has returned with two printed costs, the second unlike the first.
C8_Witness ==
    /\ pc = "done"
    /\ Len(out) >= 2
    /\ out[2][2] # out[1][2]

\* ------------------------------------------------------------- C9
\* C9: a call with n_factor <= 0, alpha <= 0, reg < 0 or n_iter < 0 is rejected
\* at entry: no factor is drawn, no cost printed, no step taken, and nothing is
\* returned.
C9_InvalidRejected ==
    (n_factor <= 0 \/ alpha <= 0 \/ reg < 0 \/ n_iter < 0) =>
        /\ pc \in {"entry", "error"}
        /\ X = None /\ Theta = None
        /\ out = <<>>
        /\ nupd = 0

\* ------------------------------------------------------------- C10
\* Every entry of A is v.
AllAre(A, v) == \A r \in 1..A.nr : \A c \in 1..A.nc : A.a[r][c] = v

\* Every row of A holds one value in all its columns.
SameAcrossFactors(A) ==
    \A r \in 1..A.nr : \A c1 \in 1..A.nc : \A c2 \in 1..A.nc : A.a[r][c1] = A.a[r][c2]

\* C10: when the factors start with all entries equal to one value, the
\* gradients are the same in every factor, and after any number of steps every
\* row of X and of Theta still holds one value in all factors; from all-zero
\* factors the gradients are zero and the factors stay zero.
C10_SymmetryKept ==
    (Allocated /\ \E v \in RandnVals : AllAre(X0, v) /\ AllAre(Theta0, v)) =>
        /\ SameAcrossFactors(X) /\ SameAcrossFactors(Theta)
        /\ SameAcrossFactors(dX(X, Theta, Y, has_rating, reg))
        /\ SameAcrossFactors(dTheta(X, Theta, Y, has_rating, reg))
        /\ (AllAre(X0, 0) /\ AllAre(Theta0, 0)) =>
              /\ AllAre(X, 0) /\ AllAre(Theta, 0)
              /\ AllAre(dX(X, Theta, Y, has_rating, reg), 0)
              /\ AllAre(dTheta(X, Theta, Y, has_rating, reg), 0)

\* Two factors or more, started at one common value that is not 0, with an
\* observed rating, after steps that moved both matrices.
C10_Witness ==
    /\ ValidArgs
    /\ n_factor >= 2
    /\ \E r \in 1..Y.nr : \E c \in 1..Y.nc : has_rating.a[r][c]
    /\ Allocated
    /\ \E v \in RandnVals \ {0} : AllAre(X0, v) /\ AllAre(Theta0, v)
    /\ nupd >= 2
    /\ X # X0 /\ Theta # Theta0

====
